---- MODULE Spec2Model ----
(***************************************************************************)
(* Model of go-langserver's signature-help handler (langserver/signature.go)*)
(* and of the path helpers PathHasPrefix and IsVendorDir.                   *)
(*                                                                          *)
(* Go strings are modelled as sequences of one-character strings, so that   *)
(* concatenation, prefix and substring tests are computed as the code       *)
(* computes them.  Source positions are abstract token offsets; NoPos is 0. *)
(***************************************************************************)
EXTENDS Integers, Sequences, FiniteSets, TLC

VARIABLES
    program,    \* the type-checked snapshot the request is answered from
    pc,         \* position of the request: "idle", "typechecked", "done"
    nodes,      \* typecheck's enclosing path for the cursor, innermost first
    err,        \* typecheck's error: "", "invalidNode" or another error
    call,       \* handler local: the node callExpr returned (<<>> when nil)
    result,     \* handler result: <<>> for nil, <<help>> for a SignatureHelp
    resultErr,  \* handler error result ("" for nil)
    pathCall,   \* a call of a path helper: function name and arguments
    pathRet     \* its return value (<<>> before the call returns)

vars == <<program, pc, nodes, err, call, result, resultErr, pathCall, pathRet>>

(***************************************************************************)
(* Bounds of the model.                                                     *)
(***************************************************************************)
MaxLen == 3         \* longest string handed to PathHasPrefix
MaxSegs == 3        \* most path segments handed to IsVendorDir
MaxArgs == 2        \* most arguments at a call site
MaxGroups == 2      \* most parameter groups of a declaration
MaxNames == 2       \* most names in one parameter group

(***************************************************************************)
(* package strings                                                          *)
(***************************************************************************)
HasPrefix(s, p) == Len(p) <= Len(s) /\ SubSeq(s, 1, Len(p)) = p

HasSuffix(s, p) == Len(p) <= Len(s) /\ SubSeq(s, Len(s) - Len(p) + 1, Len(s)) = p

\* strings.Index: offset (from 0) of the first occurrence of sub, or -1
Index(s, sub) ==
    LET hits == {i \in 0..(Len(s) - Len(sub)) : SubSeq(s, i + 1, i + Len(sub)) = sub}
    IN  IF hits = {} THEN -1 ELSE CHOOSE i \in hits : \A j \in hits : i <= j

Contains(s, sub) == Index(s, sub) >= 0

\* strings.Replace(s, old, new, 1) for a non-empty old
ReplaceFirst(s, old, new) ==
    LET i == Index(s, old)
    IN  IF i < 0 THEN s
        ELSE SubSeq(s, 1, i) \o new \o SubSeq(s, i + Len(old) + 1, Len(s))

RECURSIVE Join(_, _)
\* strings.Join
Join(elems, sep) ==
    IF elems = <<>> THEN <<>>
    ELSE IF Len(elems) = 1 THEN elems[1]
    ELSE elems[1] \o sep \o Join(Tail(elems), sep)

(***************************************************************************)
(* Path helpers                                                             *)
(***************************************************************************)
PathSeparator == <<"/">>

PathHasPrefix(s, prefix) ==
    LET prefixSlash == IF prefix # <<>> /\ ~HasSuffix(prefix, PathSeparator)
                       THEN prefix \o PathSeparator
                       ELSE <<>>
    IN  s = prefix \/ HasPrefix(s, prefixSlash)

VendorSlash == <<"v", "e", "n", "d", "o", "r", "/">>

SlashVendorSlash == <<"/">> \o VendorSlash

IsVendorDir(dir) == HasPrefix(dir, VendorSlash) \/ Contains(dir, SlashVendorSlash)

(***************************************************************************)
(* Inputs of the path helpers                                               *)
(***************************************************************************)
PathChars == {"a", "b", "/"}

RECURSIVE StringsUpTo(_, _)
StringsUpTo(chars, n) ==
    IF n = 0 THEN {<<>>}
    ELSE LET shorter == StringsUpTo(chars, n - 1)
         IN  shorter \cup {Append(s, c) : s \in shorter, c \in chars}

Vendor == <<"v", "e", "n", "d", "o", "r">>

Segments == {Vendor, <<"a">>, Vendor \o <<"s">>, <<"x">> \o Vendor, <<>>}

RECURSIVE SegmentLists(_)
SegmentLists(n) ==
    IF n = 0 THEN {<<>>}
    ELSE LET shorter == SegmentLists(n - 1)
         IN  shorter \cup {Append(l, g) : l \in shorter, g \in Segments}

Dirs == {Join(l, <<"/">>) : l \in SegmentLists(MaxSegs)}

NoArg == <<>>

PathCalls ==
    {[fn |-> "PathHasPrefix", s |-> s, prefix |-> p] :
        s \in StringsUpTo(PathChars, MaxLen), p \in StringsUpTo(PathChars, MaxLen)}
    \cup {[fn |-> "IsVendorDir", s |-> d, prefix |-> NoArg] : d \in Dirs}

(***************************************************************************)
(* Syntax trees (go/ast).  An expression is a record; x holds the operand   *)
(* of a selector, parenthesis or index expression, or the callee of a call. *)
(***************************************************************************)
Ident(n) == [kind |-> "Ident", name |-> n, x |-> <<>>, args |-> <<>>]

BasicLit == [kind |-> "BasicLit", name |-> "", x |-> <<>>, args |-> <<>>]

FuncLit == [kind |-> "FuncLit", name |-> "", x |-> <<>>, args |-> <<>>]

SelectorExpr(X, n) == [kind |-> "SelectorExpr", name |-> n, x |-> <<X>>, args |-> <<>>]

ParenExpr(X) == [kind |-> "ParenExpr", name |-> "", x |-> <<X>>, args |-> <<>>]

IndexExpr(X) == [kind |-> "IndexExpr", name |-> "", x |-> <<X>>, args |-> <<>>]

CallExpr(Fun, Args) == [kind |-> "CallExpr", name |-> "", x |-> <<Fun>>, args |-> Args]

RECURSIVE Width(_)
RECURSIVE ArgsWidth(_)
\* number of tokens of an expression: End() - Pos()
Width(e) ==
    CASE e.kind \in {"Ident", "BasicLit", "FuncLit"} -> 1
      [] e.kind = "SelectorExpr" -> Width(e.x[1]) + 2
      [] e.kind = "ParenExpr" -> Width(e.x[1]) + 2
      [] e.kind = "IndexExpr" -> Width(e.x[1]) + 3
      [] e.kind = "CallExpr" -> Width(e.x[1]) + 2 + ArgsWidth(e.args)

\* tokens of an argument list: the arguments and the commas between them
ArgsWidth(args) ==
    IF args = <<>> THEN 0
    ELSE IF Len(args) = 1 THEN Width(args[1])
    ELSE Width(args[1]) + 1 + ArgsWidth(Tail(args))

\* A node of the tree: its type, its extent [pos, end), its depth below the
\* file, and for a call its callee's extent (Fun.Pos(), Fun.End()) and
\* len(Args); for an identifier or selector the (selected) name.
Node(k, p, e, d, n, fp, fe, na) ==
    [kind |-> k, pos |-> p, end |-> e, depth |-> d, name |-> n,
     fpos |-> fp, fend |-> fe, nargs |-> na]

Plain(k, p, e, d) == Node(k, p, e, d, "", 0, 0, 0)

RECURSIVE NodesOf(_, _, _)
RECURSIVE ArgNodes(_, _, _)
\* the nodes of expression e laid out from position p at depth d
NodesOf(e, p, d) ==
    CASE e.kind = "Ident" -> {Node("Ident", p, p + 1, d, e.name, 0, 0, 0)}
      [] e.kind \in {"BasicLit", "FuncLit"} -> {Plain(e.kind, p, p + 1, d)}
      [] e.kind = "SelectorExpr" ->
            {Node("SelectorExpr", p, p + Width(e), d, e.name, 0, 0, 0),
             Node("Ident", p + Width(e) - 1, p + Width(e), d + 1, e.name, 0, 0, 0)}
            \cup NodesOf(e.x[1], p, d + 1)
      [] e.kind = "ParenExpr" ->
            {Plain("ParenExpr", p, p + Width(e), d)} \cup NodesOf(e.x[1], p + 1, d + 1)
      [] e.kind = "IndexExpr" ->
            {Plain("IndexExpr", p, p + Width(e), d),
             Plain("BasicLit", p + Width(e) - 2, p + Width(e) - 1, d + 1)}
            \cup NodesOf(e.x[1], p, d + 1)
      [] e.kind = "CallExpr" ->
            {Node("CallExpr", p, p + Width(e), d, "", p, p + Width(e.x[1]), Len(e.args))}
            \cup NodesOf(e.x[1], p, d + 1)
            \cup ArgNodes(e.args, p + Width(e.x[1]) + 1, d + 1)

ArgNodes(args, p, d) ==
    IF args = <<>> THEN {}
    ELSE NodesOf(args[1], p, d) \cup ArgNodes(Tail(args), p + Width(args[1]) + 1, d)

(***************************************************************************)
(* The file of the snapshot.  It declares func f, method g and func outer;  *)
(* outer's body declares the function-valued local v and holds the          *)
(* statement under the cursor:                                              *)
(*     func f(P) int {}                                                     *)
(*     func (r T) g(P) {}                                                   *)
(*     func outer(P) { v := func..; <body> }                                *)
(***************************************************************************)
NoPos == 0

\* token offsets of the file's fixed part
Layout ==
    [file |-> 1,
     f |-> 1, fName |-> 2,          \* func f: keyword, name, params, results, {}
     g |-> 7, gName |-> 9,          \* func g: keyword, receiver, name, params, {}
     outer |-> 13, outerName |-> 14,\* func outer: keyword, name, params, { ... }
     v |-> 17,                      \* v := func..
     stmt |-> 20]                   \* the statement under the cursor

FileEnd(prog) == Layout.stmt + Width(prog.body) + 1

Nodes(prog) ==
    {Plain("File", Layout.file, FileEnd(prog), 0),
     Plain("FuncDecl", Layout.f, Layout.g, 1),
     Node("Ident", Layout.fName, Layout.fName + 1, 2, "f", 0, 0, 0),
     Plain("FieldList", 3, 4, 2), Plain("FieldList", 4, 5, 2),
     Plain("BlockStmt", 5, 7, 2),
     Plain("FuncDecl", Layout.g, Layout.outer, 1),
     Plain("FieldList", 8, 9, 2),
     Node("Ident", Layout.gName, Layout.gName + 1, 2, "g", 0, 0, 0),
     Plain("FieldList", 10, 11, 2), Plain("BlockStmt", 11, 13, 2),
     Plain("FuncDecl", Layout.outer, FileEnd(prog), 1),
     Node("Ident", Layout.outerName, Layout.outerName + 1, 2, "outer", 0, 0, 0),
     Plain("FieldList", 15, 16, 2),
     Plain("BlockStmt", 16, FileEnd(prog), 2),
     Plain("AssignStmt", Layout.v, Layout.stmt, 3),
     Node("Ident", Layout.v, Layout.v + 1, 4, "v", 0, 0, 0),
     Plain("FuncLit", 19, 20, 4),
     Plain("ExprStmt", Layout.stmt, Layout.stmt + Width(prog.body), 3)}
    \cup NodesOf(prog.body, Layout.stmt, 4)

RECURSIVE InnermostFirst(_)
\* a chain of nested nodes as a path, deepest node first
InnermostFirst(chain) ==
    IF chain = {} THEN <<>>
    ELSE LET n == CHOOSE n \in chain : \A m \in chain : m.depth <= n.depth
         IN  <<n>> \o InnermostFirst(chain \ {n})

\* prog.PathEnclosingInterval: the nodes enclosing [start, end), innermost
\* first; an empty interval stands for [start, start+1)
PathEnclosingInterval(prog, start, end) ==
    IF ~(start < FileEnd(prog) /\ end > Layout.file)
    THEN <<Plain("File", Layout.file, FileEnd(prog), 0)>>
    ELSE LET e == IF start = end THEN start + 1 ELSE end
         IN  InnermostFirst({n \in Nodes(prog) : n.pos <= start /\ e <= n.end})

(***************************************************************************)
(* Declarations and the symbol table of the snapshot                        *)
(***************************************************************************)
\* types.Type.String() of the type recorded for a parameter's type expression
TypeString(typeExpr) ==
    CASE typeExpr = "int" -> <<"i", "n", "t">>
      [] typeExpr = "io.Reader" -> <<"i", "o", ".", "R", "e", "a", "d", "e", "r">>
      [] typeExpr = "T" -> <<"p", "k", "g", ".", "T">>

\* the *ast.FuncDecl whose extent starts at pos; all three share the
\* parameter list of the snapshot
FuncDeclAt(prog, pos) ==
    CASE pos = Layout.f ->
            [name |-> <<"f">>, recv |-> <<>>, params |-> prog.params,
             results |-> <<"i", "n", "t">>, doc |-> <<<<"/", "/", " ", "F">>>>]
      [] pos = Layout.g ->
            [name |-> <<"g">>, recv |-> <<"(", "r", " ", "T", ")">>,
             params |-> prog.params, results |-> <<>>, doc |-> <<>>]
      [] pos = Layout.outer ->
            [name |-> <<"o", "u", "t", "e", "r">>, recv |-> <<>>,
             params |-> prog.params, results |-> <<>>, doc |-> <<>>]

\* pkg.ObjectOf(ident): <<>> for nil, else the object with its Pos().
\* f, g and outer are the declared functions, v is the local of outer,
\* b is a built-in (an object without position); other names are unresolved.
ObjectOf(prog, id) ==
    CASE id.name = "f" -> <<[pos |-> Layout.fName]>>
      [] id.name = "g" -> <<[pos |-> Layout.gName]>>
      [] id.name = "outer" -> <<[pos |-> Layout.outerName]>>
      [] id.name = "v" -> <<[pos |-> Layout.v]>>
      [] id.name = "b" -> <<[pos |-> NoPos]>>
      [] OTHER -> <<>>

IsValid(pos) == pos # NoPos

(***************************************************************************)
(* langserver/signature.go                                                  *)
(***************************************************************************)
\* the first node of the path of the given type, as <<node>>, or <<>>
FirstOfKind(path, kind) ==
    LET hits == {i \in 1..Len(path) : path[i].kind = kind}
    IN  IF hits = {} THEN <<>>
        ELSE <<path[CHOOSE i \in hits : \A j \in hits : i <= j]>>

callExprLast(path) ==
    LET hits == {i \in 1..Len(path) : path[i].kind = "CallExpr"}
    IN  IF hits = {} THEN <<>>
        ELSE <<path[CHOOSE i \in hits : \A j \in hits : i >= j]>>

\* callExpr climbs AST tree up until call expression
callExpr(path) == FirstOfKind(path, "CallExpr")

\* call.Fun, as far as the code reads it: Pos() and End()
FunOf(c) == [pos |-> c.fpos, end |-> c.fend]

IdentDepth == 4

\* the identifier of path[i]: the node itself, or t.Sel of a selector
identAt(path, i) ==
    IF path[i].kind = "Ident"
    THEN <<[name |-> path[i].name, pos |-> path[i].pos]>>
    ELSE <<[name |-> path[i].name, pos |-> path[i].end - 1]>>

\* lines 106-114: the first identifier or selector among the first
\* IdentDepth nodes of the path, <<>> for nil
identIn(path) ==
    LET hits == {i \in 1..Len(path) :
                    i <= IdentDepth /\ path[i].kind \in {"Ident", "SelectorExpr"}}
    IN  IF hits = {} THEN <<>>
        ELSE identAt(path, CHOOSE i \in hits : \A j \in hits : i <= j)

\* ident looks for first ident node in the given path
ident(prog, node) == identIn(PathEnclosingInterval(prog, node.pos, node.end))

\* lines 128-134: the first FuncDecl of the path, <<>> for nil
enclosingFuncDecl(prog, d) == IF d = <<>> THEN <<>> ELSE <<FuncDeclAt(prog, d[1].pos)>>

\* lines 124-134: the declaration around the object's position
funcDeclOfObject(prog, o) ==
    IF o = <<>> \/ ~IsValid(o[1].pos) THEN <<>>
    ELSE enclosingFuncDecl(prog,
            FirstOfKind(PathEnclosingInterval(prog, o[1].pos, o[1].pos), "FuncDecl"))

\* lines 120-123: the object of the callee's identifier
funcDeclOfIdent(prog, id) ==
    IF id = <<>> THEN <<>> ELSE funcDeclOfObject(prog, ObjectOf(prog, id[1]))

\* funcDecl returns AST node where function referenced by the given call
\* expression was defined: <<>> for nil
funcDecl(prog, c) == funcDeclOfIdent(prog, ident(prog, FunOf(c)))

\* printer.Fprint of the clone: receiver, name, an empty parameter list and
\* the results
nodeAsString(clone) ==
    <<"f", "u", "n", "c", " ">>
    \o (IF clone.recv = <<>> THEN <<>> ELSE clone.recv \o <<" ">>)
    \o clone.name \o <<"(", ")">>
    \o (IF clone.results = <<>> THEN <<>> ELSE <<" ">> \o clone.results)

RECURSIVE labelsOfNames(_, _)
labelsOfNames(names, t) ==
    IF names = <<>> THEN <<>>
    ELSE <<names[1] \o <<" ">> \o t>> \o labelsOfNames(Tail(names), t)

RECURSIVE parametersAsStringFirstName(_)
\* (mutant) one label per field: only the first name of a group is printed
parametersAsStringFirstName(fields) ==
    IF fields = <<>> THEN <<>>
    ELSE labelsOfNames(SubSeq(fields[1].names, 1, 1), TypeString(fields[1].type))
         \o parametersAsStringFirstName(Tail(fields))

RECURSIVE parametersAsString(_)
\* parametersAsString returns string representations of function parameters
parametersAsString(fields) ==
    IF fields = <<>> THEN <<>>
    ELSE labelsOfNames(fields[1].names, TypeString(fields[1].type))
         \o parametersAsString(Tail(fields))

\* ast.CommentGroup.Text: the comment markers and the first space are
\* removed, every line ends with a newline
CommentText(group) ==
    IF group = <<>> THEN <<>>
    ELSE Join([i \in 1..Len(group) |->
                 LET l == SubSeq(group[i], 3, Len(group[i]))
                 IN  (IF HasPrefix(l, <<" ">>) THEN Tail(l) ELSE l) \o <<"\n">>],
              <<>>)

\* the call expression funcInfo finds again from the callee's position
funcInfoCall(prog, node) ==
    FirstOfKind(PathEnclosingInterval(prog, node.pos, node.pos), "CallExpr")

NoInfo == [signature |-> <<>>, parameters |-> <<>>, documentation |-> <<>>]

\* lines 92-97: the printed clone with the labels put between its parentheses
signatureOf(fDecl, parameters) ==
    [signature |->
        ReplaceFirst(nodeAsString(fDecl), <<"(", ")">>,
                     <<"(">> \o Join(parameters, <<",", " ">>) \o <<")">>),
     parameters |-> parameters,
     documentation |-> CommentText(fDecl.doc)]

\* lines 79-97: the declaration's signature, labels and documentation
funcInfoOfDecl(fDecl) ==
    IF fDecl = <<>> THEN NoInfo
    ELSE signatureOf(fDecl[1], parametersAsString(fDecl[1].params))

\* lines 73-99: the first call expression of the path decides
funcInfoOfCall(prog, c) ==
    IF c = <<>> THEN NoInfo ELSE funcInfoOfDecl(funcDecl(prog, c[1]))

\* funcInfo returns declaration about given function call expression
funcInfo(prog, node) == funcInfoOfCall(prog, funcInfoCall(prog, node))

\* (mutant) a position-not-resolved failure is returned like any other
typecheckFailedAny(e) == e # ""

\* lines 19-23: the typecheck error that ends the request
typecheckFailed(e) == e # "" /\ e # "invalidNode"

\* (mutant) a signature without parameters is suppressed
signatureUnknownOrEmpty(info) == info.signature = <<>> \/ info.parameters = <<>>

\* line 31: funcInfo found no declaration
signatureUnknown(info) == info.signature = <<>>

\* (mutant) the last parameter's index is taken as the parameter count
activeParameterNoDecrement(parameters, c) ==
    IF Len(parameters) > c.nargs THEN c.nargs ELSE Len(parameters)

\* lines 40-47: the index of the parameter to highlight
activeParameter(parameters, c) ==
    LET last == IF Len(parameters) > 0 THEN Len(parameters) - 1 ELSE Len(parameters)
        numArguments == c.nargs
    IN  IF last > numArguments THEN numArguments ELSE last

Nil == [call |-> <<>>, result |-> <<>>, err |-> ""]

\* lines 35-49: the response for the call and its signature
signatureHelp(c, info) ==
    [call |-> c,
     result |->
        <<[signatures |->
             <<[label |-> info.signature,
                documentation |-> info.documentation,
                parameters |->
                   [i \in 1..Len(info.parameters) |-> [label |-> info.parameters[i]]]]>>,
           activeSignature |-> 0,
           activeParameter |-> activeParameter(info.parameters, c[1])]>>,
     err |-> ""]

\* lines 30-49
helpForInfo(c, info) ==
    IF signatureUnknown(info) THEN [Nil EXCEPT !.call = c] ELSE signatureHelp(c, info)

\* lines 26-49
helpForCall(prog, c) ==
    IF c = <<>> THEN Nil ELSE helpForInfo(c, funcInfo(prog, FunOf(c[1])))

\* the handler's locals and return values for typecheck's (path, e)
handleTextDocumentSignatureHelp(prog, path, e) ==
    IF typecheckFailed(e) THEN [Nil EXCEPT !.err = e]
    ELSE helpForCall(prog, callExpr(path))

(***************************************************************************)
(* Snapshots the requests are answered from                                 *)
(***************************************************************************)
ParamNames == <<"a", "b", "c", "d", "e", "h", "i", "j", "k", "l", "m", "n">>

\* a parameter group with the names at offsets from+1 .. from+n of ParamNames
Field(from, n, t) == [names |-> [i \in 1..n |-> <<ParamNames[from + i]>>], type |-> t]

RECURSIVE FieldLists(_, _)
\* the parameter lists of up to k more groups, the names of earlier groups
\* being the first `from` of ParamNames
FieldLists(k, from) ==
    IF k = 0 THEN {<<>>}
    ELSE {<<>>} \cup
         UNION {{<<Field(from, n, t)>> \o rest : rest \in FieldLists(k - 1, from + n)} :
                    n \in 0..MaxNames, t \in {"int", "io.Reader"}}

Lits(k) == [i \in 1..k |-> BasicLit]

CalleeNames == {"f", "g", "v", "b", "u"}

\* callees without a call inside
Callees ==
    {Ident(n) : n \in CalleeNames}
    \cup {SelectorExpr(Ident("x"), n) : n \in CalleeNames}
    \cup {ParenExpr(Ident(n)) : n \in CalleeNames}
    \cup {IndexExpr(Ident(n)) : n \in CalleeNames}
    \cup {FuncLit}

Calls == {CallExpr(c, Lits(k)) : c \in Callees, k \in 0..MaxArgs}

InnerCalls == {CallExpr(c, Lits(1)) : c \in Callees}

\* callees that hold a call: g(1), g(1).f, (g(1))
CalleesOnCalls ==
    InnerCalls
    \cup {SelectorExpr(c, n) : c \in InnerCalls, n \in {"f", "g"}}
    \cup {ParenExpr(c) : c \in InnerCalls}

Bodies ==
    Calls
    \cup {CallExpr(c, Lits(k)) : c \in CalleesOnCalls, k \in 0..MaxArgs}
    \cup {CallExpr(Ident(n), <<c>>) : n \in CalleeNames, c \in InnerCalls}
    \cup {SelectorExpr(c, n) : c \in InnerCalls, n \in {"f", "g"}}
    \cup {Ident(n) : n \in CalleeNames} \cup {BasicLit}

Programs ==
    {[params |-> ps, body |-> CallExpr(Ident("f"), Lits(k))] :
        ps \in FieldLists(MaxGroups, 0), k \in 0..MaxArgs}
    \cup {[params |-> ps, body |-> b] :
            ps \in {<<>>, <<Field(0, 2, "int")>>}, b \in Bodies}

NoProgram == [params |-> <<>>, body |-> BasicLit]

NoPathCall == [fn |-> "", s |-> NoArg, prefix |-> NoArg]

(***************************************************************************)
(* Requests                                                                 *)
(***************************************************************************)
Init ==
    /\ program \in Programs
    /\ pc = "idle"
    /\ nodes = <<>>
    /\ err = ""
    /\ call = <<>>
    /\ result = <<>>
    /\ resultErr = ""
    /\ pathCall = NoPathCall
    /\ pathRet = <<>>

Errors == {"build failed", "context canceled"}

\* h.typecheck for a cursor position: the enclosing path of the cursor, or
\* the position-not-resolved condition, or a failure of the build
Typecheck ==
    /\ pc = "idle"
    /\ pathCall = NoPathCall
    /\ \E cursor \in Layout.file..(FileEnd(program) - 1) :
         \/ /\ nodes' = PathEnclosingInterval(program, cursor, cursor)
            /\ err' \in {"", "invalidNode"}
         \/ /\ nodes' = <<>>
            /\ err' \in {"invalidNode"} \cup Errors
    /\ pc' = "typechecked"
    /\ UNCHANGED <<program, call, result, resultErr, pathCall, pathRet>>

\* the handler's return values and its local call, for the claims
Returns(r) ==
    /\ call' = r.call
    /\ result' = r.result
    /\ resultErr' = r.err

HandleSignatureHelp ==
    /\ pc = "typechecked"
    /\ Returns(handleTextDocumentSignatureHelp(program, nodes, err))
    /\ pc' = "done"
    /\ UNCHANGED <<program, nodes, err, pathCall, pathRet>>

\* the response is sent; nothing of the request is kept
Respond ==
    /\ pc = "done"
    /\ pc' = "idle"
    /\ nodes' = <<>>
    /\ err' = ""
    /\ call' = <<>>
    /\ result' = <<>>
    /\ resultErr' = ""
    /\ UNCHANGED <<program, pathCall, pathRet>>

Next == Typecheck \/ HandleSignatureHelp \/ Respond

Spec == Init /\ [][Next]_vars

(***************************************************************************)
(* Calls of the path helpers                                                *)
(***************************************************************************)
InitPath ==
    /\ program = NoProgram
    /\ pc = "idle"
    /\ nodes = <<>>
    /\ err = ""
    /\ call = <<>>
    /\ result = <<>>
    /\ resultErr = ""
    /\ pathCall \in PathCalls
    /\ pathRet = <<>>

CallPathHasPrefix ==
    /\ pathCall.fn = "PathHasPrefix"
    /\ pathRet = <<>>
    /\ pathRet' = <<PathHasPrefix(pathCall.s, pathCall.prefix)>>
    /\ UNCHANGED <<program, pc, nodes, err, call, result, resultErr, pathCall>>

CallIsVendorDir ==
    /\ pathCall.fn = "IsVendorDir"
    /\ pathRet = <<>>
    /\ pathRet' = <<IsVendorDir(pathCall.s)>>
    /\ UNCHANGED <<program, pc, nodes, err, call, result, resultErr, pathCall>>

NextPath == CallPathHasPrefix \/ CallIsVendorDir

SpecPath == InitPath /\ [][NextPath]_vars

(***************************************************************************)
(* Properties                                                               *)
(***************************************************************************)
Done == pc = "done"

\* the signature of a returned SignatureHelp and its labels
Signature == result[1].signatures[1]

Labels == [i \in 1..Len(Signature.parameters) |-> Signature.parameters[i].label]

\* the call expression whose callee the handler resolved, and what it
\* resolved it to (both <<>> when there is none)
ResolvedCall == IF call = <<>> THEN <<>> ELSE funcInfoCall(program, FunOf(call[1]))

ResolvedIdent == IF ResolvedCall = <<>> THEN <<>> ELSE ident(program, FunOf(ResolvedCall[1]))

ResolvedDecl == IF ResolvedCall = <<>> THEN <<>> ELSE funcDecl(program, ResolvedCall[1])

Min(a, b) == IF a < b THEN a ELSE b

\* C1: a returned SignatureHelp with n > 0 parameter labels for a call site
\* with m arguments has activeParameter = min(n-1, m), which lies in
\* 0..n-1, and activeSignature is always 0.
ActiveParameterIsMin ==
    (Done /\ result # <<>>) =>
        /\ result[1].activeSignature = 0
        /\ Len(result[1].signatures) = 1
        /\ Len(Labels) > 0 =>
              /\ result[1].activeParameter = Min(Len(Labels) - 1, call[1].nargs)
              /\ result[1].activeParameter \in 0..(Len(Labels) - 1)

\* the call has fewer arguments than the declaration has parameters before
\* its last one: the highlighted parameter is the argument count
ActiveParameterWitness ==
    /\ Done /\ result # <<>>
    /\ call[1].nargs = 1
    /\ Len(Labels) >= 3
    /\ result[1].activeParameter = 1

\* the resolved declaration declares no parameter name
NoParameterNames ==
    /\ ResolvedDecl # <<>>
    /\ \A i \in 1..Len(ResolvedDecl[1].params) : ResolvedDecl[1].params[i].names = <<>>

RECURSIVE NamesBefore(_, _)
\* the number of names declared by the groups before group g
NamesBefore(fields, g) ==
    IF g <= 1 THEN 0 ELSE NamesBefore(fields, g - 1) + Len(fields[g - 1].names)

\* C3: the parameter list of the result is the concatenation, in
\* declaration order, of one label "name type" per name of each parameter
\* group of the resolved declaration.
LabelsFollowDeclaration ==
    (Done /\ result # <<>>) =>
        LET fields == ResolvedDecl[1].params
        IN  /\ Len(Labels) = NamesBefore(fields, Len(fields) + 1)
            /\ \A g \in 1..Len(fields) : \A j \in 1..Len(fields[g].names) :
                  Labels[NamesBefore(fields, g) + j]
                     = fields[g].names[j] \o <<" ">> \o TypeString(fields[g].type)

\* two groups of two names each, of different types
LabelsWitness ==
    /\ Done /\ result # <<>>
    /\ Len(program.params) = 2
    /\ Len(program.params[1].names) = 2
    /\ Len(program.params[2].names) = 2
    /\ program.params[1].type # program.params[2].type
    /\ Len(Labels) = 4

CallsOnPath == {i \in 1..Len(nodes) : nodes[i].kind = "CallExpr"}

\* C4: callExpr returns the first call expression of the enclosing path,
\* which is the innermost enclosing call, and none iff the path holds no
\* call expression; then the handler returns the empty result, no error.
CallExprIsInnermostCall ==
    (Done /\ err \in {"", "invalidNode"}) =>
        /\ call = <<>> <=> CallsOnPath = {}
        /\ call # <<>> =>
              \E i \in CallsOnPath :
                  /\ nodes[i] = call[1]
                  /\ \A j \in CallsOnPath : i <= j /\ nodes[j].depth <= call[1].depth
        /\ call = <<>> => (result = <<>> /\ resultErr = "")

\* the cursor is in a call that is an argument of, or the callee of, a call
CallExprWitness ==
    /\ Done
    /\ Cardinality(CallsOnPath) = 2
    /\ call # <<>>
    /\ \E j \in CallsOnPath : nodes[j].depth < call[1].depth

\* the smallest declaration around a position: a function declaration, or
\* the short variable declaration of a local
DeclaresCallable(prog, pos) ==
    LET path == PathEnclosingInterval(prog, pos, pos)
        decls == {i \in 1..Len(path) : path[i].kind \in {"FuncDecl", "AssignStmt"}}
    IN  /\ decls # {}
        /\ path[CHOOSE i \in decls : \A j \in decls : i <= j].kind = "FuncDecl"

\* C5: a callee identifier that is unresolved, bound to a built-in without
\* position, or bound to something whose smallest enclosing declaration is
\* not a callable declaration gets the empty result.
UnknownDeclarationIsEmpty ==
    (Done /\ ResolvedIdent # <<>>) =>
        LET o == ObjectOf(program, ResolvedIdent[1])
        IN  (\/ o = <<>>
             \/ ~IsValid(o[1].pos)
             \/ ~DeclaresCallable(program, o[1].pos)) => result = <<>>

\* C6: the handler returns an error iff typecheck failed with an error
\* other than invalidNodeError, and then that error and no result.
ErrorIffTypecheckFailed ==
    Done =>
        /\ resultErr # "" <=> err \notin {"", "invalidNode"}
        /\ resultErr # "" => (resultErr = err /\ result = <<>>)

ErrorWitness == Done /\ err = "context canceled" /\ resultErr = "context canceled"

\* C7: PathHasPrefix(s, prefix) iff s = prefix or s starts with prefix
\* followed by the path separator.
PathHasPrefixIff ==
    (pathCall.fn = "PathHasPrefix" /\ pathRet # <<>>) =>
        (pathRet[1] <=> (\/ pathCall.s = pathCall.prefix
                         \/ HasPrefix(pathCall.s, pathCall.prefix \o PathSeparator)))

\* dir has a slash-separated segment equal to "vendor"
HasVendorSegment(dir) ==
    \E i \in 1..Len(dir) : \E j \in i..Len(dir) :
        /\ SubSeq(dir, i, j) = Vendor
        /\ (i = 1 \/ dir[i - 1] = "/")
        /\ (j = Len(dir) \/ dir[j + 1] = "/")

\* C8: IsVendorDir(dir) iff dir is "vendor" or has a slash-separated
\* segment equal to "vendor".
IsVendorDirIff ==
    (pathCall.fn = "IsVendorDir" /\ pathRet # <<>>) =>
        (pathRet[1] <=> HasVendorSegment(pathCall.s))

\* C9: the identifier ident selects for symbol lookup lies within the
\* callee expression of the call, never in a node that encloses the call.
IdentWithinCallee ==
    (Done /\ ResolvedIdent # <<>>) =>
        /\ ResolvedCall[1].fpos <= ResolvedIdent[1].pos
        /\ ResolvedIdent[1].pos < ResolvedCall[1].fend

\* C10: the call expression funcInfo finds again from the callee's start
\* position is the call expression callExpr returned.
FuncInfoCallIsCallExpr == (Done /\ call # <<>>) => ResolvedCall = call

====
